---- MODULE Spec2Model ----
(***************************************************************************)
(* Model of rust-bert's sequence classification pipeline                   *)
(* (src/pipelines/sequence_classification.rs):                             *)
(*   - SequenceClassificationOption::new / model_type (variant dispatch),  *)
(*   - SequenceClassificationModel::new (pipeline construction),           *)
(*   - prepare_for_model (tokenize, pad, stack),                           *)
(*   - predict (softmax + arg-max) and predict_multilabel (sigmoid +       *)
(*     threshold + grouping).                                              *)
(* Tensors are sequences of rows; positions the code counts from 0 are     *)
(* kept 0-based in the Label fields.  Floating point values are fixed      *)
(* point numbers k/Scale, rounded to nearest as a float operation rounds.  *)
(* Option<T> is a sequence: <<>> for None, <<v>> for Some(v).              *)
(***************************************************************************)
EXTENDS Integers, Sequences, FiniteSets, TLC

VARIABLES model, call, option, ctor, threads

vars == <<model, call, option, ctor, threads>>

----------------------------------------------------------------------------
(* Bounds of the model *)

\* largest number of texts in one input batch
MaxTexts == 3
\* number of labels (columns of the logits) of the loaded classifier
NumLabels == 2
\* largest number of tokens the tokenizer produces for one text
MaxTokLen == 3
\* fixed point resolution of a probability: p is represented by p * Scale
Scale == 8
\* max_position_embeddings of a configuration that declares one
MaxPos == 2

\* stand-in for usize::MAX (larger than every sequence length of the model)
UsizeMax == 2147483647

\* token ids the tokenizer emits for text
TokenIds == {1, 2}
\* logits a backend emits (0 -> sigmoid 1/2, 4 -> sigmoid saturates to 1)
LogitValues == {0, 4}
\* thresholds a caller passes: 0.0, 0.5, 1.0
Thresholds == {0, Scale \div 2, Scale}

None == <<>>
Some(v) == <<v>>

Min(a, b) == IF a <= b THEN a ELSE b

RECURSIVE Pow2(_)
Pow2(k) == IF k <= 0 THEN 1 ELSE 2 * Pow2(k - 1)

RECURSIVE SumSeq(_)
SumSeq(s) == IF s = <<>> THEN 0 ELSE Head(s) + SumSeq(Tail(s))

RECURSIVE MaxSeq(_)
\* Iterator::max over a non-empty sequence of lengths
MaxSeq(s) == IF Len(s) = 1 THEN s[1]
             ELSE LET m == MaxSeq(Tail(s)) IN IF s[1] >= m THEN s[1] ELSE m

\* a / b rounded to nearest (ties up), a >= 0, b > 0
RoundDiv(a, b) == (2 * a + b) \div (2 * b)

\* all sequences over S of length lo..hi
SeqsOf(S, lo, hi) == UNION {[1..k -> S] : k \in lo..hi}

----------------------------------------------------------------------------
(* Label and label mapping *)

LabelIds == 0..(NumLabels - 1)

\* HashMap<i64, String> read from the configuration (id2label)
LabelMapping ==
    [i \in LabelIds |-> IF i = 0 THEN "NEGATIVE"
                        ELSE IF i = 1 THEN "POSITIVE"
                        ELSE "LABEL_" \o ToString(i)]

Label(text, score, id, sentence) ==
    [text |-> text, score |-> score, id |-> id, sentence |-> sentence]

----------------------------------------------------------------------------
(* Numeric kernels of the tensor back end *)

\* exp of a logit, as a positive integer weight
ExpW(l) == Pow2(l)

\* Tensor::softmax(-1) of one row
SoftmaxRow(row) ==
    LET w == [j \in 1..Len(row) |-> ExpW(row[j])]
        total == SumSeq(w)
    IN  [j \in 1..Len(row) |-> RoundDiv(Scale * w[j], total)]

Softmax(logits) == [i \in 1..Len(logits) |-> SoftmaxRow(logits[i])]

\* Tensor::sigmoid, element-wise
SigmoidOf(l) == RoundDiv(Scale * ExpW(l), ExpW(l) + ExpW(0))

Sigmoid(logits) ==
    [i \in 1..Len(logits) |-> [j \in 1..Len(logits[i]) |-> SigmoidOf(logits[i][j])]]

\* a mutant: the index of the last maximal entry
ArgmaxLast(row) ==
    CHOOSE j \in 1..Len(row) :
        /\ \A k \in 1..Len(row) : row[k] <= row[j]
        /\ \A k \in (j + 1)..Len(row) : row[k] < row[j]

\* Tensor::argmax(-1) of one row: the (1-based) index of the first maximal entry
Argmax(row) ==
    CHOOSE j \in 1..Len(row) :
        /\ \A k \in 1..Len(row) : row[k] <= row[j]
        /\ \A k \in 1..(j - 1) : row[k] < row[j]

\* a mutant: strictly greater than the threshold
GeStrict(output, threshold) ==
    [i \in 1..Len(output) |-> [j \in 1..Len(output[i]) |-> output[i][j] > threshold]]

\* a mutant: the comparison turned round, output <= threshold
GeFlipped(output, threshold) ==
    [i \in 1..Len(output) |-> [j \in 1..Len(output[i]) |-> output[i][j] <= threshold]]

\* Tensor::ge(threshold): element-wise output >= threshold
Ge(output, threshold) ==
    [i \in 1..Len(output) |-> [j \in 1..Len(output[i]) |-> output[i][j] >= threshold]]

\* a mutant: the indices of the true entries in column-major order
NonzeroColumnMajor(mask) ==
    LET n == Len(mask)
        L == IF n = 0 THEN 0 ELSE Len(mask[1])
        all == [f \in 1..(n * L) |-> <<(f - 1) % n, (f - 1) \div n>>]
        IsSet(p) == mask[p[1] + 1][p[2] + 1]
    IN  SelectSeq(all, IsSet)

\* Tensor::nonzero of a 2-d boolean tensor: the <<row, column>> indices
\* (0-based) of the true entries, in row-major order
Nonzero(mask) ==
    LET n == Len(mask)
        L == IF n = 0 THEN 0 ELSE Len(mask[1])
        all == [f \in 1..(n * L) |-> <<(f - 1) \div L, (f - 1) % L>>]
        IsSet(p) == mask[p[1] + 1][p[2] + 1]
    IN  SelectSeq(all, IsSet)

----------------------------------------------------------------------------
(* The pipeline: struct SequenceClassificationModel *)

Ok(v) == [kind |-> "Ok", value |-> v]
Panic(msg) == [kind |-> "Panic", value |-> msg]
Err(e) == [kind |-> "Err", value |-> e]

\* TokenizerOption::get_pad_id of the tokenizers a pipeline can hold:
\* some have no PAD token (None), the others pad with id 0
PadIds == {None, Some(0)}

\* max_length of a built pipeline: get_max_len() or usize::MAX
MaxLengths == {MaxPos, UsizeMax}

SequenceClassificationModel(pad_id, variant, max_length) ==
    [tokenizer |-> [pad_id |-> pad_id],
     sequence_classifier |-> variant,
     label_mapping |-> LabelMapping,
     max_length |-> max_length]

\* a text is given by the token ids its tokenization yields (here: texts
\* in which no token id repeats its predecessor)
Texts ==
    {t \in SeqsOf(TokenIds, 0, MaxTokLen) : \A i \in 2..Len(t) : t[i] # t[i - 1]}

\* TokenizerOption::encode_list with TruncationStrategy::LongestFirst:
\* one TokenizedInput per text, cut to max_length tokens
EncodeList(input, max_length) ==
    [i \in 1..Len(input) |->
        [token_ids |-> SubSeq(input[i], 1, Min(Len(input[i]), max_length))]]

\* a mutant: pads every row to the global max_length bound MaxTokLen
PrepareForModelGlobal(self, input) ==
    LET tokenized_input == EncodeList(input, self.max_length) IN
    IF tokenized_input = <<>>
    THEN Panic("called Option::unwrap on a None value")
    ELSE IF self.tokenizer.pad_id = None
    THEN Panic("The Tokenizer used for sequence classification should contain a PAD id")
    ELSE Ok([i \in 1..Len(tokenized_input) |->
                tokenized_input[i].token_ids \o
                [c \in 1..(MaxTokLen - Len(tokenized_input[i].token_ids)) |->
                    self.tokenizer.pad_id[1]]])

\* fn prepare_for_model: the stacked tensor, one row per text, or the panic of
\* the unwrap() of max() (no text) or of the expect() on get_pad_id()
PrepareForModel(self, input) ==
    LET tokenized_input == EncodeList(input, self.max_length) IN
    IF tokenized_input = <<>>
    THEN Panic("called Option::unwrap on a None value")
    ELSE LET max_len ==
                 MaxSeq([i \in 1..Len(tokenized_input) |->
                            Len(tokenized_input[i].token_ids)])
         IN  IF self.tokenizer.pad_id = None
             THEN Panic("The Tokenizer used for sequence classification should contain a PAD id")
             ELSE Ok([i \in 1..Len(tokenized_input) |->
                         tokenized_input[i].token_ids \o
                         [c \in 1..(max_len - Len(tokenized_input[i].token_ids)) |->
                             self.tokenizer.pad_id[1]]])

\* SequenceClassificationOption::forward_t on a batch of n rows: the logits
\* tensors of shape (n, NumLabels) a backend can return
ForwardT(input_tensor) ==
    [1..Len(input_tensor) -> [1..NumLabels -> LogitValues]]

----------------------------------------------------------------------------
(* predict *)

RECURSIVE PredictLoopFrom1(_, _, _, _, _)
\* a mutant: sentence counted from 1
PredictLoopFrom1(self, label_indices, scores, sentence_idx, labels) ==
    IF sentence_idx >= Len(label_indices) THEN Ok(labels)
    ELSE LET id == label_indices[sentence_idx + 1] IN
         IF id \notin DOMAIN self.label_mapping
         THEN Panic("called Option::unwrap on a None value")
         ELSE PredictLoopFrom1(self, label_indices, scores, sentence_idx + 1,
                  Append(labels, Label(self.label_mapping[id],
                                       scores[sentence_idx + 1], id, sentence_idx + 1)))

RECURSIVE PredictLoop(_, _, _, _, _)
\* the for loop of predict over sentence_idx in 0..label_indices.len()
PredictLoop(self, label_indices, scores, sentence_idx, labels) ==
    IF sentence_idx >= Len(label_indices) THEN Ok(labels)
    ELSE LET id == label_indices[sentence_idx + 1] IN
         IF id \notin DOMAIN self.label_mapping
         THEN Panic("called Option::unwrap on a None value")
         ELSE PredictLoop(self, label_indices, scores, sentence_idx + 1,
                  Append(labels, Label(self.label_mapping[id],
                                       scores[sentence_idx + 1], id, sentence_idx)))

\* predict after the forward pass: softmax, argmax, gather, labels
PredictDecode(self, logits) ==
    LET output == Softmax(logits)
        label_indices == [i \in 1..Len(output) |-> Argmax(output[i]) - 1]
        scores == [i \in 1..Len(output) |-> output[i][label_indices[i] + 1]]
    IN  PredictLoop(self, label_indices, scores, 0, <<>>)

----------------------------------------------------------------------------
(* predict_multilabel *)

RECURSIVE MultilabelLoopGe(_, _, _, _, _, _)
\* a mutant: a group is pushed when sentence >= labels.len()
MultilabelLoopGe(self, output, label_indices, sentence_idx, labels, sequence_labels) ==
    IF sentence_idx >= Len(label_indices)
    THEN Ok(IF sequence_labels # <<>> THEN Append(labels, sequence_labels) ELSE labels)
    ELSE LET sentence_label == label_indices[sentence_idx + 1]
             sentence == sentence_label[1]
             id == sentence_label[2]
             flush == sentence >= Len(labels)
             labels1 == IF flush THEN Append(labels, sequence_labels) ELSE labels
             sequence_labels1 == IF flush THEN <<>> ELSE sequence_labels
             score == output[sentence + 1][id + 1]
         IN  IF id \notin DOMAIN self.label_mapping
             THEN Panic("called Option::unwrap on a None value")
             ELSE MultilabelLoopGe(self, output, label_indices, sentence_idx + 1, labels1,
                      Append(sequence_labels1,
                             Label(self.label_mapping[id], score, id, sentence)))

RECURSIVE MultilabelLoop(_, _, _, _, _, _)
\* the for loop of predict_multilabel over the rows of label_indices, then
\* the push of the last non-empty sequence_labels
MultilabelLoop(self, output, label_indices, sentence_idx, labels, sequence_labels) ==
    IF sentence_idx >= Len(label_indices)
    THEN Ok(IF sequence_labels # <<>> THEN Append(labels, sequence_labels) ELSE labels)
    ELSE LET sentence_label == label_indices[sentence_idx + 1]
             sentence == sentence_label[1]
             id == sentence_label[2]
             flush == sentence > Len(labels)
             labels1 == IF flush THEN Append(labels, sequence_labels) ELSE labels
             sequence_labels1 == IF flush THEN <<>> ELSE sequence_labels
             score == output[sentence + 1][id + 1]
         IN  IF id \notin DOMAIN self.label_mapping
             THEN Panic("called Option::unwrap on a None value")
             ELSE MultilabelLoop(self, output, label_indices, sentence_idx + 1, labels1,
                      Append(sequence_labels1,
                             Label(self.label_mapping[id], score, id, sentence)))

\* predict_multilabel after the forward pass: sigmoid, ge, nonzero, grouping
MultilabelDecode(self, logits, threshold) ==
    LET output == Sigmoid(logits)
        label_indices == Nonzero(Ge(output, threshold))
    IN  MultilabelLoop(self, output, label_indices, 0, <<>>, <<>>)

----------------------------------------------------------------------------
(* SequenceClassificationOption *)

\* ModelType values with an arm in SequenceClassificationOption::new
SupportedModelTypes ==
    {"Bert", "Deberta", "DebertaV2", "DistilBert", "MobileBert", "Roberta",
     "XLMRoberta", "Albert", "XLNet", "Bart", "Reformer", "Longformer", "FNet"}

\* ... and one ModelType that falls to the `_` arm
ModelTypes == SupportedModelTypes \cup {"T5"}

\* tags of ConfigOption: those the arms of new match on, and one they never match
ConfigTags ==
    {"Bert", "Deberta", "DebertaV2", "DistilBert", "MobileBert", "Albert",
     "XLNet", "Bart", "Reformer", "Longformer", "FNet", "T5"}

\* outcomes of a fallible backend constructor (XLNet..., Reformer...::new)
CtorOutcomes == {Ok("model"), Err("backend constructor error")}

InvalidConfigurationError == Err("InvalidConfigurationError")

\* one infallible arm: if let ConfigOption::<required>(config) = config
Arm(variant, required, config) ==
    IF config = required THEN Ok(variant) ELSE InvalidConfigurationError

\* a mutant: the Albert arm takes a BertConfig as well
OptionNewLax(model_type, config, built) ==
    CASE model_type = "Albert" ->
            IF config \in {"Albert", "Bert"} THEN Ok("Albert")
            ELSE InvalidConfigurationError
      [] model_type = "XLNet" ->
            IF config = "XLNet"
            THEN IF built.kind = "Ok" THEN Ok("XLNet")
                 ELSE Panic("called Result::unwrap on an Err value")
            ELSE InvalidConfigurationError
      [] model_type = "Reformer" ->
            IF config = "Reformer"
            THEN IF built.kind = "Ok" THEN Ok("Reformer") ELSE built
            ELSE InvalidConfigurationError
      [] model_type \in {"Roberta", "XLMRoberta"} -> Arm(model_type, "Bert", config)
      [] model_type = "T5" -> InvalidConfigurationError
      [] OTHER -> Arm(model_type, model_type, config)

\* SequenceClassificationOption::new(model_type, p, config): Ok(variant), an
\* Err, or the panic of the unwrap() in the XLNet arm.  `built` is what the
\* fallible backend constructor returns when the arm calls it.
OptionNew(model_type, config, built) ==
    CASE model_type = "Bert" -> Arm("Bert", "Bert", config)
      [] model_type = "Deberta" -> Arm("Deberta", "Deberta", config)
      [] model_type = "DebertaV2" -> Arm("DebertaV2", "DebertaV2", config)
      [] model_type = "DistilBert" -> Arm("DistilBert", "DistilBert", config)
      [] model_type = "MobileBert" -> Arm("MobileBert", "MobileBert", config)
      [] model_type = "Roberta" -> Arm("Roberta", "Bert", config)
      [] model_type = "XLMRoberta" -> Arm("XLMRoberta", "Bert", config)
      [] model_type = "Albert" -> Arm("Albert", "Albert", config)
      [] model_type = "XLNet" ->
            IF config = "XLNet"
            THEN IF built.kind = "Ok" THEN Ok("XLNet")
                 ELSE Panic("called Result::unwrap on an Err value")
            ELSE InvalidConfigurationError
      [] model_type = "Bart" -> Arm("Bart", "Bart", config)
      [] model_type = "Reformer" ->
            IF config = "Reformer"
            THEN IF built.kind = "Ok" THEN Ok("Reformer") ELSE built
            ELSE InvalidConfigurationError
      [] model_type = "Longformer" -> Arm("Longformer", "Longformer", config)
      [] model_type = "FNet" -> Arm("FNet", "FNet", config)
      [] OTHER -> InvalidConfigurationError

\* SequenceClassificationOption::model_type
ModelTypeOf(variant) ==
    CASE variant = "Bert" -> "Bert"
      [] variant = "Deberta" -> "Deberta"
      [] variant = "DebertaV2" -> "DebertaV2"
      [] variant = "Roberta" -> "Roberta"
      [] variant = "XLMRoberta" -> "Roberta"
      [] variant = "DistilBert" -> "DistilBert"
      [] variant = "MobileBert" -> "MobileBert"
      [] variant = "Albert" -> "Albert"
      [] variant = "XLNet" -> "XLNet"
      [] variant = "Bart" -> "Bart"
      [] variant = "Reformer" -> "Reformer"
      [] variant = "Longformer" -> "Longformer"
      [] variant = "FNet" -> "FNet"

----------------------------------------------------------------------------
(* State *)

NoResult == [kind |-> "None", value |-> "none"]

NoCall ==
    [op |-> "none", input |-> <<>>, threshold |-> 0, input_tensor |-> NoResult,
     logits |-> <<>>, output |-> <<>>, result |-> NoResult]

NoOption == [model_type |-> "none", config |-> "none", built |-> NoResult,
             result |-> NoResult]

NoCtor == [config |-> [model_type |-> "none", merges_resource |-> FALSE],
           pc |-> "none", steps |-> <<>>, paths_utf8 |-> TRUE, pad_id |-> None,
           model_config |-> "none", max_length |-> 0,
           sequence_classifier |-> "none", result |-> NoResult]

\* threads that call the pipeline through a shared reference, and the
\* locals of the call each of them is in
Threads == {1, 2}

IdleThread ==
    [pc |-> "idle", op |-> "none", input |-> <<>>, threshold |-> 0,
     input_tensor |-> NoResult, logits |-> <<>>, output |-> <<>>,
     result |-> NoResult]

NoThreads == [t \in Threads |-> IdleThread]

\* the pipeline of the running program
self == model[1]

\* batches handed to predict and predict_multilabel: the first n texts of a
\* corpus whose i-th text has ((i - 1) % MaxTokLen) + 1 tokens
CorpusText(i) ==
    [k \in 1..(((i - 1) % MaxTokLen) + 1) |-> IF k % 2 = 1 THEN 1 ELSE 2]
PredictInputs == {[i \in 1..n |-> CorpusText(i)] : n \in 0..MaxTexts}

\* batches handed to prepare_for_model
Inputs == SeqsOf(Texts, 0, MaxTexts)

----------------------------------------------------------------------------
(* Calls on a constructed pipeline.  The methods take &self and return an  *)
(* owned value; a behaviour follows one call from the idle pipeline.       *)

\* the pipelines SequenceClassificationModel::new(Default::default()) can
\* return (model type DistilBert), by tokenizer and configuration file
Init ==
    /\ model \in {Some(SequenceClassificationModel(pad_id, "DistilBert", max_length)) :
                     pad_id \in PadIds, max_length \in MaxLengths}
    /\ call = NoCall
    /\ option = NoOption
    /\ ctor = NoCtor
    /\ threads = NoThreads

\* prepare_for_model(input), as the first statement of predict and predict_multilabel
PrepareCall ==
    /\ call.op = "none"
    /\ \E input \in Inputs :
          LET input_tensor == PrepareForModel(self, input) IN
          call' = [op |-> "prepare_for_model", input |-> input, threshold |-> 0,
                   input_tensor |-> input_tensor, logits |-> <<>>, output |-> <<>>,
                   result |-> input_tensor]
    /\ UNCHANGED <<model, option, ctor, threads>>

\* predict(input)
PredictCall ==
    /\ call.op = "none"
    /\ \E input \in PredictInputs :
          LET input_tensor == PrepareForModel(self, input) IN
          IF input_tensor.kind # "Ok"
          THEN call' = [op |-> "predict", input |-> input, threshold |-> 0,
                        input_tensor |-> input_tensor, logits |-> <<>>,
                        output |-> <<>>, result |-> input_tensor]
          ELSE \E logits \in ForwardT(input_tensor.value) :
                  call' = [op |-> "predict", input |-> input, threshold |-> 0,
                           input_tensor |-> input_tensor, logits |-> logits,
                           output |-> Softmax(logits),
                           result |-> PredictDecode(self, logits)]
    /\ UNCHANGED <<model, option, ctor, threads>>

\* predict_multilabel(input, threshold)
PredictMultilabelCall ==
    /\ call.op = "none"
    /\ \E input \in PredictInputs, threshold \in Thresholds :
          LET input_tensor == PrepareForModel(self, input) IN
          IF input_tensor.kind # "Ok"
          THEN call' = [op |-> "predict_multilabel", input |-> input,
                        threshold |-> threshold, input_tensor |-> input_tensor,
                        logits |-> <<>>, output |-> <<>>, result |-> input_tensor]
          ELSE \E logits \in ForwardT(input_tensor.value) :
                  call' = [op |-> "predict_multilabel", input |-> input,
                           threshold |-> threshold, input_tensor |-> input_tensor,
                           logits |-> logits, output |-> Sigmoid(logits),
                           result |-> MultilabelDecode(self, logits, threshold)]
    /\ UNCHANGED <<model, option, ctor, threads>>

Next == PrepareCall \/ PredictCall \/ PredictMultilabelCall

Spec == Init /\ [][Next]_vars

----------------------------------------------------------------------------
(* Properties of predict, predict_multilabel and prepare_for_model (Spec) *)

HasPad == self.tokenizer.pad_id # None

Returned(op) == call.op = op /\ call.result.kind = "Ok"

RECURSIVE Flatten(_)
\* the groups of a predict_multilabel result, concatenated in order
Flatten(groups) ==
    IF groups = <<>> THEN <<>> ELSE Head(groups) \o Flatten(Tail(groups))

C2_OneGroupPerText ==
    Returned("predict_multilabel") => Len(call.result.value) = Len(call.input)

\* C3 (as claimed): every label of group i (0-based) has sentence = i, so no
\* label sits in a foreign group and no text's labels are split over groups
C3_GroupHoldsItsSentence ==
    Returned("predict_multilabel") =>
        \A g \in 1..Len(call.result.value) :
            \A k \in 1..Len(call.result.value[g]) :
                call.result.value[g][k].sentence = g - 1

\* C4: predict_multilabel emits a label for a (text, label id) pair iff the
\* pair's sigmoid probability is >= threshold; each qualifying pair is emitted
\* exactly once over all groups, with the pair's id, sentence, score and text
C4_EmittedIffAtLeastThreshold ==
    Returned("predict_multilabel") =>
        LET flat == Flatten(call.result.value)
            Emitted(i, j) ==
                {k \in 1..Len(flat) : flat[k].sentence = i - 1 /\ flat[k].id = j - 1}
        IN  /\ \A i \in 1..Len(call.output) : \A j \in 1..NumLabels :
                  Cardinality(Emitted(i, j)) =
                      IF call.output[i][j] >= call.threshold THEN 1 ELSE 0
            /\ \A k \in 1..Len(flat) :
                  /\ flat[k].sentence \in 0..(Len(call.input) - 1)
                  /\ flat[k].id \in LabelIds
                  /\ flat[k].score = call.output[flat[k].sentence + 1][flat[k].id + 1]
                  /\ flat[k].score >= call.threshold
                  /\ flat[k].text = LabelMapping[flat[k].id]

C4_Witness ==
    /\ Returned("predict_multilabel")
    /\ call.threshold = Scale
    /\ \E i \in 1..Len(call.output) : \E j, k \in 1..NumLabels :
          /\ call.output[i][j] >= call.threshold
          /\ call.output[i][k] < call.threshold
    /\ Len(Flatten(call.result.value)) >= 2

\* C5: for every row of the probability matrix, predict returns the label
\* whose id is the lowest arg-max of the row, whose score is the row's maximum
\* (within [0, 1]) and whose text is label_mapping[id]
C5_PredictArgmaxLowestId ==
    Returned("predict") =>
        \A i \in 1..Len(call.output) :
            LET row == call.output[i]
                label == call.result.value[i]
            IN  /\ label.id \in LabelIds
                /\ label.score = row[label.id + 1]
                /\ \A k \in 1..Len(row) : row[k] <= label.score
                /\ \A k \in 1..label.id : row[k] < label.score
                /\ label.score \in 0..Scale
                /\ label.text = LabelMapping[label.id]

C5_Witness ==
    /\ Returned("predict")
    /\ call.logits = <<<<0, 4>>, <<4, 0>>, <<0, 0>>>>
    /\ [i \in 1..3 |-> call.result.value[i].id] = <<1, 0, 0>>
    /\ [i \in 1..3 |-> call.result.value[i].text] = <<"POSITIVE", "NEGATIVE", "NEGATIVE">>

\* C8 (as claimed): predict and predict_multilabel on an empty sequence of
\* texts return an empty result
C8_EmptyInputEmptyResult ==
    (call.op \in {"predict", "predict_multilabel"} /\ call.input = <<>> /\ HasPad) =>
        call.result = Ok(<<>>)

\* C10: for a non-empty batch (and a tokenizer with a pad id) the built batch
\* has shape (num_texts, row_max), row_max the largest tokenized length of the
\* batch; row i is text i's token ids followed by pad ids only
C10_BatchPaddedToRowMax ==
    (call.op # "none" /\ call.input # <<>> /\ HasPad) =>
        LET tokens == [i \in 1..Len(call.input) |->
                          SubSeq(call.input[i], 1,
                                 Min(Len(call.input[i]), self.max_length))]
            batch == call.input_tensor.value
        IN  /\ call.input_tensor.kind = "Ok"
            /\ Len(batch) = Len(call.input)
            /\ \E m \in 1..Len(tokens) :
                  /\ \A i \in 1..Len(tokens) : Len(tokens[i]) <= Len(tokens[m])
                  /\ \A i \in 1..Len(batch) : Len(batch[i]) = Len(tokens[m])
            /\ \A i \in 1..Len(batch) :
                  /\ SubSeq(batch[i], 1, Len(tokens[i])) = tokens[i]
                  /\ \A c \in (Len(tokens[i]) + 1)..Len(batch[i]) :
                        batch[i][c] = self.tokenizer.pad_id[1]

C10_Witness ==
    /\ call.op = "prepare_for_model"
    /\ call.input = <<<<1, 2>>, <<2, 1, 2>>, <<1>>>>
    /\ call.input_tensor = Ok(<<<<1, 2, 0>>, <<2, 1, 2>>, <<1, 0, 0>>>>)

\* C11 (as claimed): on a pipeline whose tokenizer has no pad id,
\* predict_multilabel of a non-empty batch returns an error result (Err) to
\* the caller, with no label emitted and no forward pass run
C11_MissingPadIdReturnsErr ==
    (call.op = "predict_multilabel" /\ call.input # <<>> /\ ~HasPad) =>
        /\ call.result.kind = "Err"
        /\ call.logits = <<>>

\* C13: predict_multilabel(texts, 0.0) returns one group per text, and
\* group i (0-based) holds one label for every label id 0..num_labels-1, all
\* with sentence = i
C13_ThresholdZeroFullLabelSet ==
    (Returned("predict_multilabel") /\ call.threshold = 0) =>
        /\ Len(call.result.value) = Len(call.input)
        /\ \A g \in 1..Len(call.result.value) :
              LET group == call.result.value[g] IN
              /\ Len(group) = NumLabels
              /\ {group[k].id : k \in 1..Len(group)} = LabelIds
              /\ \A k \in 1..Len(group) : group[k].sentence = g - 1

C13_Witness ==
    /\ Returned("predict_multilabel")
    /\ call.threshold = 0
    /\ Len(call.input) = 3
    /\ Len(call.result.value) = 3
    /\ \A g \in 1..3 : Len(call.result.value[g]) = 2
    /\ call.result.value[3][2].sentence = 2

\* C14 (as claimed): predict_multilabel(texts, 1.0), when no class of any
\* text has probability exactly 1, returns n empty groups for n texts
C14_ThresholdOneEmptyGroups ==
    (/\ Returned("predict_multilabel")
     /\ call.threshold = Scale
     /\ \A i \in 1..Len(call.output) : \A j \in 1..Len(call.output[i]) :
           call.output[i][j] < Scale) =>
        call.result.value = [i \in 1..Len(call.input) |-> <<>>]

\* C16: within every group of a predict_multilabel result the label ids are
\* strictly ascending, and the groups concatenated in order list the labels
\* in strictly ascending (sentence, id) order
C16_AscendingSentenceThenId ==
    Returned("predict_multilabel") =>
        LET flat == Flatten(call.result.value) IN
        /\ \A g \in 1..Len(call.result.value) :
              \A k \in 1..(Len(call.result.value[g]) - 1) :
                  call.result.value[g][k].id < call.result.value[g][k + 1].id
        /\ \A k \in 1..(Len(flat) - 1) :
              \/ flat[k].sentence < flat[k + 1].sentence
              \/ /\ flat[k].sentence = flat[k + 1].sentence
                 /\ flat[k].id < flat[k + 1].id

C16_Witness ==
    /\ Returned("predict_multilabel")
    /\ call.threshold = Scale
    /\ call.logits = <<<<4, 4>>, <<0, 4>>, <<4, 4>>>>
    /\ Len(Flatten(call.result.value)) = 5
    /\ \E g \in 1..Len(call.result.value) : Len(call.result.value[g]) = 2

----------------------------------------------------------------------------
(* Calls of SequenceClassificationOption::new (SpecOption) *)

InitOption ==
    /\ model = None
    /\ call = NoCall
    /\ option = NoOption
    /\ ctor = NoCtor
    /\ threads = NoThreads

\* SequenceClassificationOption::new(model_type, p, config)
OptionNewCall ==
    /\ option.model_type = "none"
    /\ \E model_type \in ModelTypes, config \in ConfigTags, built \in CtorOutcomes :
          option' = [model_type |-> model_type, config |-> config, built |-> built,
                     result |-> OptionNew(model_type, config, built)]
    /\ UNCHANGED <<model, call, ctor, threads>>

NextOption == OptionNewCall

SpecOption == InitOption /\ [][NextOption]_vars

\* C6 (as claimed): new returns a backend only when the configuration's tag
\* equals the requested variant, and an invalid-configuration error for every
\* pair where the tag differs
C6_BackendOnlyWhenTagEqualsVariant ==
    option.model_type # "none" =>
        /\ option.result.kind = "Ok" => option.config = option.model_type
        /\ option.config # option.model_type =>
               option.result = InvalidConfigurationError

\* the configuration tag the arm of a supported variant accepts
ExpectedConfig(model_type) ==
    IF model_type \in {"Roberta", "XLMRoberta"} THEN "Bert" ELSE model_type

\* C6 (amended): new returns a backend only for a supported variant whose
\* configuration tag is the one the variant's arm accepts (its own tag; Bert
\* for Roberta and XLMRoberta), and the backend is that variant's; every
\* other pair gets an invalid-configuration error and no backend
C6_BackendOnlyWhenTagAccepted ==
    option.model_type # "none" =>
        /\ option.result.kind = "Ok" =>
               /\ option.model_type \in SupportedModelTypes
               /\ option.config = ExpectedConfig(option.model_type)
               /\ option.result.value = option.model_type
        /\ (option.model_type \notin SupportedModelTypes
              \/ option.config # ExpectedConfig(option.model_type)) =>
               option.result = InvalidConfigurationError

C6_Witness ==
    /\ option.model_type = "Albert"
    /\ option.config = "Bert"
    /\ option.result = InvalidConfigurationError

\* C7 (as claimed): when the fallible constructor of XLNet or Reformer fails
\* on a matching configuration, new returns an error value carrying that
\* failure
C7_CtorFailureReturnedAsErr ==
    (/\ option.model_type \in {"XLNet", "Reformer"}
     /\ option.config = option.model_type
     /\ option.built.kind = "Err") =>
        option.result = option.built

\* C17 (as claimed): when new(model_type, p, config) returns a backend,
\* model_type() called on that backend returns the requested model_type,
\* for every variant
C17_ModelTypeRoundTrip ==
    option.result.kind = "Ok" =>
        ModelTypeOf(option.result.value) = option.model_type

----------------------------------------------------------------------------
(* SequenceClassificationModel::new, statement by statement (SpecNew) *)

\* get_local_path() of a resource: an error, or a path that is or is not UTF-8
PathOutcomes == {Err("ResourceError"), Ok("utf8 path"), Ok("non-utf8 path")}

InitNew ==
    /\ model = None
    /\ call = NoCall
    /\ option = NoOption
    /\ threads = NoThreads
    /\ \E model_type \in ModelTypes, merges_resource \in BOOLEAN :
          ctor = [NoCtor EXCEPT !.config = [model_type |-> model_type,
                                           merges_resource |-> merges_resource],
                                !.pc = "config_path"]

\* the step `name` ran and returned early with `result`
Abort(name, result) ==
    ctor' = [ctor EXCEPT !.pc = "done", !.steps = Append(@, name), !.result = result]

\* let config_path = config.config_resource.get_local_path()?;
ResolveConfigPath ==
    /\ ctor.pc = "config_path"
    /\ \E path \in PathOutcomes :
          IF path.kind = "Err" THEN Abort("config_path", path)
          ELSE ctor' = [ctor EXCEPT !.pc = "vocab_path",
                                    !.steps = Append(@, "config_path")]
    /\ UNCHANGED <<model, call, option, threads>>

\* let vocab_path = config.vocab_resource.get_local_path()?;
ResolveVocabPath ==
    /\ ctor.pc = "vocab_path"
    /\ \E path \in PathOutcomes :
          IF path.kind = "Err" THEN Abort("vocab_path", path)
          ELSE ctor' = [ctor EXCEPT !.pc = "weights_path",
                                    !.steps = Append(@, "vocab_path"),
                                    !.paths_utf8 = (path.value = "utf8 path")]
    /\ UNCHANGED <<model, call, option, threads>>

\* let weights_path = config.model_resource.get_local_path()?;
ResolveWeightsPath ==
    /\ ctor.pc = "weights_path"
    /\ \E path \in PathOutcomes :
          IF path.kind = "Err" THEN Abort("weights_path", path)
          ELSE ctor' = [ctor EXCEPT !.pc = "merges_path",
                                    !.steps = Append(@, "weights_path")]
    /\ UNCHANGED <<model, call, option, threads>>

\* let merges_path = if let Some(..) { Some(merges_resource.get_local_path()?) }
\*                   else { None };
ResolveMergesPath ==
    /\ ctor.pc = "merges_path"
    /\ IF ctor.config.merges_resource
       THEN \E path \in PathOutcomes :
               IF path.kind = "Err" THEN Abort("merges_path", path)
               ELSE ctor' = [ctor EXCEPT !.pc = "tokenizer",
                                         !.steps = Append(@, "merges_path"),
                                         !.paths_utf8 =
                                             (@ /\ path.value = "utf8 path")]
       ELSE ctor' = [ctor EXCEPT !.pc = "tokenizer",
                                 !.steps = Append(@, "merges_path")]
    /\ UNCHANGED <<model, call, option, threads>>

\* let tokenizer = TokenizerOption::from_file(.., vocab_path.to_str().unwrap(),
\*     merges_path...to_str().unwrap(), ..)?;
BuildTokenizer ==
    /\ ctor.pc = "tokenizer"
    /\ IF ~ctor.paths_utf8
       THEN Abort("tokenizer", Panic("called Option::unwrap on a None value"))
       ELSE \/ Abort("tokenizer", Err("TokenizerError"))
            \/ \E pad_id \in PadIds :
                  ctor' = [ctor EXCEPT !.pc = "model_config",
                                       !.steps = Append(@, "tokenizer"),
                                       !.pad_id = pad_id]
    /\ UNCHANGED <<model, call, option, threads>>

\* let model_config = ConfigOption::from_file(config.model_type, config_path);
\* let max_length = model_config.get_max_len().map(..).unwrap_or(usize::MAX);
ParseModelConfig ==
    /\ ctor.pc = "model_config"
    /\ \E tag \in ConfigTags, max_len \in {None, Some(MaxPos)} :
          ctor' = [ctor EXCEPT !.pc = "sequence_classifier",
                               !.steps = Append(@, "model_config"),
                               !.model_config = tag,
                               !.max_length =
                                   IF max_len = None THEN UsizeMax ELSE max_len[1]]
    /\ UNCHANGED <<model, call, option, threads>>

\* let sequence_classifier = SequenceClassificationOption::new(config.model_type,
\*     &var_store.root(), &model_config)?;
BuildSequenceClassifier ==
    /\ ctor.pc = "sequence_classifier"
    /\ \E built \in CtorOutcomes :
          LET result == OptionNew(ctor.config.model_type, ctor.model_config, built) IN
          IF result.kind # "Ok" THEN Abort("sequence_classifier", result)
          ELSE ctor' = [ctor EXCEPT !.pc = "load",
                                    !.steps = Append(@, "sequence_classifier"),
                                    !.sequence_classifier = result.value]
    /\ UNCHANGED <<model, call, option, threads>>

\* var_store.load(weights_path)?; Ok(SequenceClassificationModel { .. })
LoadWeights ==
    /\ ctor.pc = "load"
    /\ \/ /\ Abort("load", Err("TchError"))
          /\ UNCHANGED model
       \/ /\ ctor' = [ctor EXCEPT !.pc = "done", !.steps = Append(@, "load"),
                                  !.result = Ok("SequenceClassificationModel")]
          /\ model' = Some(SequenceClassificationModel(
                               ctor.pad_id, ctor.sequence_classifier, ctor.max_length))
    /\ UNCHANGED <<call, option, threads>>

NextNew ==
    \/ ResolveConfigPath
    \/ ResolveVocabPath
    \/ ResolveWeightsPath
    \/ ResolveMergesPath
    \/ BuildTokenizer
    \/ ParseModelConfig
    \/ BuildSequenceClassifier
    \/ LoadWeights

SpecNew == InitNew /\ [][NextNew]_vars

\* the construction steps in source order
StepOrder ==
    <<"config_path", "vocab_path", "weights_path", "merges_path", "tokenizer",
      "model_config", "sequence_classifier", "load">>

\* C9 (as claimed): the steps run in order; a pipeline is returned only after
\* all of them succeeded; a failing step ends construction (no later step
\* runs), no pipeline is returned, and the failure reaches the caller as an
\* error value
C9_ConstructionAllOrError ==
    /\ ctor.steps = SubSeq(StepOrder, 1, Len(ctor.steps))
    /\ model # None => (ctor.result.kind = "Ok" /\ ctor.steps = StepOrder)
    /\ (ctor.pc = "done" /\ ctor.result.kind # "Ok") =>
           (model = None /\ ctor.result.kind = "Err")

----------------------------------------------------------------------------
(* Calls from several threads on one shared pipeline (SpecThreads).  A call *)
(* is taken in two steps, prepare_for_model and the rest, so that the calls *)
(* of the threads interleave.                                               *)

\* batches the threads pass
ThreadInputs == {[i \in 1..n |-> CorpusText(i)] : n \in {1, 2}}

InitThreads ==
    /\ model \in {Some(SequenceClassificationModel(pad_id, "DistilBert", max_length)) :
                     pad_id \in PadIds, max_length \in MaxLengths}
    /\ call = NoCall
    /\ option = NoOption
    /\ ctor = NoCtor
    /\ threads = NoThreads

\* thread t enters predict(input) or predict_multilabel(input, threshold)
ThreadCall(t) ==
    /\ threads[t].pc = "idle"
    /\ \E input \in ThreadInputs :
          \/ threads' = [threads EXCEPT ![t] =
                            [IdleThread EXCEPT !.pc = "prepare", !.op = "predict",
                                               !.input = input]]
          \/ \E threshold \in Thresholds :
                threads' = [threads EXCEPT ![t] =
                               [IdleThread EXCEPT !.pc = "prepare",
                                                  !.op = "predict_multilabel",
                                                  !.input = input,
                                                  !.threshold = threshold]]
    /\ UNCHANGED <<model, call, option, ctor>>

\* a mutant: prepare_for_model stores the batch's row length in self.max_length
ThreadPrepareCaching(t) ==
    /\ threads[t].pc = "prepare"
    /\ LET input_tensor == PrepareForModel(self, threads[t].input) IN
       IF input_tensor.kind # "Ok"
       THEN /\ threads' = [threads EXCEPT ![t].pc = "done",
                                          ![t].input_tensor = input_tensor,
                                          ![t].result = input_tensor]
            /\ UNCHANGED model
       ELSE /\ threads' = [threads EXCEPT ![t].pc = "forward",
                                          ![t].input_tensor = input_tensor]
            /\ model' = Some([self EXCEPT !.max_length = Len(input_tensor.value[1])])
    /\ UNCHANGED <<call, option, ctor>>

\* thread t runs let input_tensor = self.prepare_for_model(input);
ThreadPrepare(t) ==
    /\ threads[t].pc = "prepare"
    /\ LET input_tensor == PrepareForModel(self, threads[t].input) IN
       IF input_tensor.kind # "Ok"
       THEN threads' = [threads EXCEPT ![t].pc = "done",
                                       ![t].input_tensor = input_tensor,
                                       ![t].result = input_tensor]
       ELSE threads' = [threads EXCEPT ![t].pc = "forward",
                                       ![t].input_tensor = input_tensor]
    /\ UNCHANGED <<model, call, option, ctor>>

\* thread t runs the forward pass and the decoding, and returns
ThreadFinish(t) ==
    /\ threads[t].pc = "forward"
    /\ \E logits \in ForwardT(threads[t].input_tensor.value) :
          IF threads[t].op = "predict"
          THEN threads' = [threads EXCEPT ![t].pc = "done",
                                          ![t].logits = logits,
                                          ![t].output = Softmax(logits),
                                          ![t].result = PredictDecode(self, logits)]
          ELSE threads' = [threads EXCEPT ![t].pc = "done",
                                          ![t].logits = logits,
                                          ![t].output = Sigmoid(logits),
                                          ![t].result =
                                              MultilabelDecode(self, logits,
                                                               threads[t].threshold)]
    /\ UNCHANGED <<model, call, option, ctor>>

NextThreads ==
    \E t \in Threads : ThreadCall(t) \/ ThreadPrepare(t) \/ ThreadFinish(t)

SpecThreads == InitThreads /\ [][NextThreads]_vars

\* number of labels a predict_multilabel result holds for the text at
\* 0-based position i
LabelCount(groups, i) ==
    LET flat == Flatten(groups) IN
    Cardinality({k \in 1..Len(flat) : flat[k].sentence = i})

\* thread t has returned from predict_multilabel with Ok
ReturnedMultilabel(t) ==
    /\ threads[t].pc = "done"
    /\ threads[t].op = "predict_multilabel"
    /\ threads[t].result.kind = "Ok"

\* C12: for two predict_multilabel calls on the same texts and the same
\* backend output with thresholds t1 <= t2, no text has more labels at t2
\* than at t1
C12_MonotonicInThreshold ==
    \A a, b \in Threads :
        (/\ ReturnedMultilabel(a) /\ ReturnedMultilabel(b)
         /\ threads[a].input = threads[b].input
         /\ threads[a].logits = threads[b].logits
         /\ threads[a].threshold <= threads[b].threshold) =>
            \A i \in 0..(Len(threads[a].input) - 1) :
                LabelCount(threads[b].result.value, i)
                    <= LabelCount(threads[a].result.value, i)

C12_Witness ==
    /\ ReturnedMultilabel(1) /\ ReturnedMultilabel(2)
    /\ threads[1].input = threads[2].input
    /\ threads[1].logits = threads[2].logits
    /\ threads[1].logits = <<<<0, 4>>, <<4, 4>>>>
    /\ threads[1].threshold = Scale \div 2
    /\ threads[2].threshold = Scale
    /\ LabelCount(threads[1].result.value, 0) = 2
    /\ LabelCount(threads[2].result.value, 0) = 1

\* what the call whose locals are th returns when it runs alone on the pipeline
AloneResult(th) ==
    LET input_tensor == PrepareForModel(self, th.input) IN
    IF input_tensor.kind # "Ok" THEN input_tensor
    ELSE IF th.op = "predict" THEN PredictDecode(self, th.logits)
    ELSE MultilabelDecode(self, th.logits, th.threshold)

\* every call that has returned returned what it returns when run alone
ReturnedAsAlone ==
    \A t \in Threads :
        threads[t].pc = "done" => threads[t].result = AloneResult(threads[t])

====
